---- MODULE Spec2Model ----
(***************************************************************************)
(* centralcontrol: the measurement server (mqtt_server.py: msg_handler,    *)
(* start_process, stop_process and the job process _run) and the utility   *)
(* handler (utility_handler.py: manager, worker, sender).                  *)
(*                                                                         *)
(* Spec        : the measurement server, its job processes and the broker. *)
(* UtilitySpec : the utility handler's manager, worker and sender threads. *)
(***************************************************************************)
EXTENDS Integers, Sequences, FiniteSets, TLC

\* ------------------------------------------------------------------ bounds
\* messages the broker hands to on_message in one behaviour
MaxMsgs == 3
\* job processes launched in one behaviour
MaxJobs == 2
\* messages waiting in msg_queue at one time
MaxQueue == 2
\* messages the broker hands to handle_message in one behaviour
MaxCmds == 3
\* messages waiting in outputq when the manager or the worker takes a step:
\* the sender is never further behind than this
MaxOutput == 2

VARIABLES
    msg_queue,       \* queue.Queue of inbound messages (main, line 712)
    daq_init_queue,  \* multiprocessing.Queue of daq/init requests (line 715)
    process,         \* the job handle msg_handler tracks (0: the dummy Process of line 709)
    sup,             \* msg_handler's position and the handle start_process is returning
    jobs,            \* the job processes, by launch number
    outbox,          \* per job: payloads appended to its MQTTQueuePublisher, not yet published
    retained,        \* the broker's retained measurement/status and plotter/live_devices
    sent,            \* what the supervisor published while handling its current message
    received,        \* how many messages on_message has queued
    cmdq,            \* UtilityHandler.cmdq: command messages as they arrive
    taskq,           \* UtilityHandler.taskq: tasks put and not yet taken by the worker
    unfinished_tasks,\* taskq.unfinished_tasks: puts minus task_done calls
    outputq,         \* UtilityHandler.outputq: outgoing messages
    mgr,             \* the manager thread: its position and the command in hand
    ivt,             \* _ivt: its position, its arguments and its locals
    pixels,          \* _ivt's pixel queue: the SMU channels still in it
    events,          \* what _ivt published and switched since the current cycle began
    live,            \* the retained plotter/live_devices list _ivt published last
    dh,              \* the DataHandler and the records of its latest batch
    pw,              \* the worker in a PCB command: its position, its task, the slot index
    mux,             \* the slots the multiplexer has selected
    queries,         \* the strings the current task has queried of the PCB
    wrk,             \* the worker thread: its position and the task in hand
    pcb_open,        \* the threads that hold a connection to the controller board
    estops,          \* emergency-stop commands ('b') the controller board received
    commands         \* how many messages handle_message has queued

\* the measurement server's state
mvars == <<msg_queue, daq_init_queue, process, sup, jobs, outbox, retained, sent, received>>

\* the utility handler's state
uvars == <<cmdq, taskq, unfinished_tasks, outputq, mgr, wrk, pcb_open, estops, commands>>

\* _ivt's measurement loop, taken by itself
ivars == <<ivt, pixels, events, live, dh>>

\* the state of the specifications that follow one routine in detail
\* the worker's round_robin and for_pcb branches, taken by themselves
pvars == <<pw, mux, queries>>

xvars == <<ivars, pvars>>

vars == <<mvars, uvars, xvars>>

JobIds == 1..MaxJobs

\* ------------------------------------------------------- outgoing messages
\* One published message.  job is the launch number of the job the message
\* belongs to (0: none); it is bookkeeping of the model, not part of the payload.
Msg(topic, level, text, devs, retain, job) ==
    [topic |-> topic, level |-> level, text |-> text, devs |-> devs,
     retain |-> retain, job |-> job]

NoMsg == Msg("", 0, "", <<>>, FALSE, 0)

Log(level, text, job) == Msg("measurement/log", level, text, <<>>, FALSE, job)

Status(text, job) == Msg("measurement/status", 0, text, <<>>, TRUE, job)

\* labels of the devices _build_q puts in the pixel queue
Devices == <<"A1", "B1">>

\* start_process, lines 75-81
BusyStatus(j) == Status("Busy", j)

\* start_process reporting busy on the status topic instead of the log
BusyWarningAsStatus == Msg("measurement/status", 0, "Busy", <<>>, TRUE, 0)

\* start_process, lines 84-87
BusyWarning == Log(30, "Measurement server busy!", 0)

\* stop_process, lines 98-111: the log, the status and the live-device list,
\* in the order of the three publish.single calls (the last one without retain)
StopCompleted == <<Log(20, "Request to stop completed!", 0),
                   Status("Ready", 0),
                   Msg("plotter/live_devices", 0, "", <<>>, FALSE, 0)>>

\* stop_process republishing Ready in its idle branch too
NothingToStopAndReady ==
    <<Msg("measurement/log", 30, "Nothing to stop. Measurement server is idle.", <<>>, FALSE, 0),
      Msg("measurement/status", 0, "Ready", <<>>, TRUE, 0)>>

\* stop_process, lines 113-116
NothingToStop == <<Log(30, "Nothing to stop. Measurement server is idle.", 0)>>

\* msg_handler, lines 694-698
InvalidPayload == Log(40, "Invalid message payload", 0)

\* The broker's retained values after it received the messages ms, in order.
RECURSIVE Retain(_, _)
Retain(r, ms) ==
    IF ms = <<>> THEN r
    ELSE LET m == Head(ms)
             r1 == IF ~m.retain THEN r
                   ELSE IF m.topic = "measurement/status"
                        THEN [r EXCEPT !.status = m.text, !.status_job = m.job]
                   ELSE IF m.topic = "plotter/live_devices"
                        THEN [r EXCEPT !.live = m.devs]
                   ELSE r
         IN  Retain(r1, Tail(ms))

\* -------------------------------------------------------- inbound messages
InMsg(topic, valid, eqe, iv, stuff, sol, ok) ==
    [topic |-> topic, valid |-> valid, enable_eqe |-> eqe, enable_iv |-> iv,
     IV_stuff |-> stuff, enable_solarsim |-> sol, init_success |-> ok]

\* measurement/run requests: EQE only, IV without and with the solar
\* simulator, and a request that enables no experiment
RunMsgs == {InMsg("measurement/run", TRUE, TRUE, FALSE, FALSE, FALSE, FALSE),
            InMsg("measurement/run", TRUE, FALSE, TRUE, TRUE, FALSE, FALSE),
            InMsg("measurement/run", TRUE, FALSE, TRUE, TRUE, TRUE, FALSE),
            InMsg("measurement/run", TRUE, FALSE, FALSE, TRUE, TRUE, FALSE)}

StopMsg == InMsg("measurement/stop", TRUE, FALSE, FALSE, FALSE, FALSE, FALSE)

DaqMsgs == {InMsg("daq/init", TRUE, FALSE, FALSE, FALSE, FALSE, ok) : ok \in BOOLEAN}

\* a payload pickle.loads rejects, or a run request without its args
BadMsg == InMsg("measurement/run", FALSE, FALSE, FALSE, FALSE, FALSE, FALSE)

InMsgs == RunMsgs \cup {StopMsg, BadMsg} \cup DaqMsgs

\* msg_handler, lines 679-682
IsRun(m) == m.topic = "measurement/run" /\ (m.enable_eqe \/ m.enable_iv)

\* ------------------------------------------------------ instrument handles
\* A context (a job, the worker) records the instruments it holds (held) and
\* how many handles it opened (acquired) and closed (released).
\* acquire: the instruments hs are connected
acquire(rec, hs) ==
    [rec EXCEPT !.held = @ \cup hs, !.acquired = @ + Cardinality(hs \ rec.held)]

\* release: every instrument still held is disconnected; what is no longer
\* held is left alone
release(rec) ==
    [rec EXCEPT !.held = {}, !.released = @ + Cardinality(rec.held)]

\* ------------------------------------------------------------ the job state
NoArgs == InMsg("", FALSE, FALSE, FALSE, FALSE, FALSE, FALSE)

\* A job process.  pc, sig, user_aborted and args are the process's state; the
\* other fields record what it has done so far:
\*   last, ready, ready_pub, lost   its publications
\*   cal        how _calibrate_spectrum ended: "", "done", "fault", "interrupt"
\*   daq        how the readiness check ended: "", "ok", "nack", "timeout"
\*   connected  the instruments connect_instruments was called for
\*   held       the instruments connected and not yet disconnected
\*   acquired, released   how many handles were opened and closed
\*   teardowns  how many times _ivt's teardown (lines 548-560) ran
\*   stopped    where KeyboardInterrupt was raised: "", "cal", "daq", "run", "other"
\*   stale      daq_init_queue held a message when the job was launched
NoJob == [pc |-> "none", sig |-> FALSE, user_aborted |-> FALSE, args |-> NoArgs,
          last |-> NoMsg, ready |-> FALSE, ready_pub |-> FALSE, lost |-> FALSE,
          cal |-> "", daq |-> "", connected |-> {}, held |-> {},
          acquired |-> 0, released |-> 0, teardowns |-> 0, stopped |-> "",
          stale |-> FALSE]

\* multiprocessing.Process.is_alive: started and not exited
JobAlive(j) == jobs[j].pc \notin {"none", "dead"}

is_alive(p) == p # 0 /\ JobAlive(p)

AliveJobs == {j \in JobIds : JobAlive(j)}

Launched == Cardinality({j \in JobIds : jobs[j].pc # "none"})

QueuedRuns == Cardinality({i \in 1..Len(msg_queue) : IsRun(msg_queue[i])})

\* ------------------------------------------------- utility commands (cmd/#)
\* A payload on cmd/#.  shape: "dict" (a mapping), "list" (an iterable that
\* holds 'cmd' but is no mapping) or "junk" (does not unpickle, or holds no
\* 'cmd'); pcb_virt: whether the mapping has the pcb_virt field; psu_virt:
\* whether a mapping that names a power supply (psu) has the psu_virt field.
Cmd(cmd, shape, pcb_virt, psu_virt) ==
    [cmd |-> cmd, shape |-> shape, pcb_virt |-> pcb_virt, psu_virt |-> psu_virt]

NoCmd == Cmd("", "dict", FALSE, FALSE)

\* the worker between two tasks.  failed is bookkeeping: the instruments whose
\* probe raised in the health check of the task in hand
NoWork ==
    [pc |-> "get", task |-> NoCmd, held |-> {}, acquired |-> 0, released |-> 0,
     failed |-> {}]

Cmds == {Cmd("estop", "dict", TRUE, TRUE), Cmd("estop", "dict", FALSE, TRUE),
         Cmd("home", "dict", TRUE, TRUE), Cmd("for_pcb", "dict", TRUE, TRUE),
         Cmd("spec", "dict", TRUE, TRUE), Cmd("round_robin", "dict", TRUE, TRUE),
         Cmd("check_health", "dict", TRUE, TRUE), Cmd("check_health", "dict", TRUE, FALSE),
         Cmd("bogus", "dict", TRUE, TRUE), Cmd("", "junk", FALSE, FALSE),
         Cmd("", "list", FALSE, FALSE)}

\* ------------------------------------------------------------ _ivt's state
\* tasks the worker takes in one behaviour of the detailed model
MaxTasks == 2
\* slots a round_robin task names
MaxSlots == 2

\* cycles a request asks for, and cycles an endless request (cycles = 0) is
\* followed through
MaxCycles == 2

\* keys of the pixel queue _build_q makes: one SMU channel per device
Channels == 1..Len(Devices)

\* the arguments _ivt reads to choose the phases of a cycle.  The run uses
\* the solar simulator, so measurement.le exists.
IvtArgs ==
    [i_dwell : {0, 1}, sweep_check : BOOLEAN, lit_sweep : 0..3,
     return_switch : BOOLEAN, mppt_dwell : {0, 1}, v_dwell : {0, 1},
     cycles : 0..MaxCycles]

\* _ivt before it is called.
\*   loop       the loop counter of line 350
\*   sweeps     the sweeps of the current cycle not finished yet
\*   pre        pre_mppt_pix, while track_max_power runs
\*   completed  bookkeeping: cycles that ran to their end (line 546)
\*   teardowns  bookkeeping: how many times lines 548-560 ran
NoIvt ==
    [pc |-> "idle",
     args |-> [i_dwell |-> 0, sweep_check |-> FALSE, lit_sweep |-> 0,
               return_switch |-> FALSE, mppt_dwell |-> 0, v_dwell |-> 0,
               cycles |-> 0],
     loop |-> 0, sweeps |-> <<>>, pre |-> 0, completed |-> 0, teardowns |-> 0]

\* DataHandler.__init__, lines 240-258, before any batch.  batch and records
\* are bookkeeping: the channels of the batch handle_data was called with last
\* by the routine that is running, and the channels of the records it appended
NoData == [kind |-> "", batch |-> {}, records |-> <<>>]

Init ==
    /\ msg_queue = <<>>
    /\ daq_init_queue = <<>>
    /\ process = 0
    /\ sup = [pc |-> "get", ret |-> 0]
    /\ jobs = [j \in JobIds |-> NoJob]
    /\ outbox = [j \in JobIds |-> <<>>]
    /\ retained = [status |-> "Ready", status_job |-> 0, live |-> <<>>]
    /\ sent = <<>>
    /\ received = 0
    /\ cmdq = <<>>
    /\ taskq = <<>>
    /\ unfinished_tasks = 0
    /\ outputq = <<>>
    /\ mgr = [pc |-> "get", cmd |-> NoCmd]
    /\ wrk = NoWork
    /\ pcb_open = {}
    /\ estops = 0
    /\ commands = 0
    /\ ivt = NoIvt
    /\ pixels = {}
    /\ events = <<>>
    /\ live = {}
    /\ dh = NoData
    /\ pw = [pc |-> "get",
             task |-> [cmd |-> "", pcb_cmd |-> <<>>, type |-> "", slots |-> <<>>],
             i |-> 0, taken |-> 0]
    /\ mux = {}
    /\ queries = <<>>

\* on_message, lines 639-641.  The messages are those msg_handler tells apart
\* (lines 677-693); main itself subscribes to measurement/# only (line 726).
on_message(m) ==
    /\ received < MaxMsgs
    /\ Len(msg_queue) < MaxQueue
    /\ IsRun(m) => QueuedRuns + Launched < MaxJobs
    /\ msg_queue' = Append(msg_queue, m)
    /\ received' = received + 1
    /\ UNCHANGED <<daq_init_queue, process, sup, jobs, outbox, retained, sent, uvars, xvars>>

\* ---------------------------------------------- the supervisor: msg_handler
\* The broker is taken to accept every publication: publish.single and the
\* publishers' connect do not raise.
\* start_process without the test of line 72
CanStartUnchecked(p) == TRUE

\* start_process launching only while the tracked handle is the dummy
\* Process of line 709
CanStartOnce(p) == p = 0

\* start_process, line 72: a new process is launched only when the tracked
\* one is not alive
CanStart(p) == ~is_alive(p)

\* stop_process, line 94
CanStop(p) == is_alive(p)

\* the job process multiprocessing.Process(target=_run, args=(request, ...))
NewJob(m) == [NoJob EXCEPT !.pc = "start", !.args = m]

\* msg_handler, lines 669-672 and 694-700: the payload does not load, or the
\* request lacks the fields read: the error log, and on to the next message
HandleInvalid ==
    /\ sup.pc = "get" /\ msg_queue # <<>>
    /\ ~Head(msg_queue).valid
    /\ msg_queue' = Tail(msg_queue)
    /\ sent' = <<InvalidPayload>>
    /\ retained' = Retain(retained, sent')
    /\ UNCHANGED <<daq_init_queue, process, sup, jobs, outbox, received, uvars, xvars>>

\* msg_handler, lines 679-688, and start_process, lines 72-74: no process is
\* alive, so a new one is created and started; Busy is not yet published
StartNew ==
    /\ sup.pc = "get" /\ msg_queue # <<>>
    /\ Head(msg_queue).valid /\ IsRun(Head(msg_queue))
    /\ CanStart(process)
    /\ Launched < MaxJobs
    /\ msg_queue' = Tail(msg_queue)
    /\ jobs' = [jobs EXCEPT ![Launched + 1] =
                   [NewJob(Head(msg_queue)) EXCEPT !.stale = daq_init_queue # <<>>]]
    /\ sup' = [pc |-> "start_publish", ret |-> Launched + 1]
    /\ sent' = <<>>
    /\ UNCHANGED <<daq_init_queue, process, outbox, retained, received, uvars, xvars>>

\* start_process, lines 75-81 and 89, and msg_handler, line 683: Busy is
\* published and the new handle becomes the tracked one
PublishBusy ==
    /\ sup.pc = "start_publish"
    /\ sent' = Append(sent, BusyStatus(sup.ret))
    /\ retained' = Retain(retained, <<BusyStatus(sup.ret)>>)
    /\ process' = sup.ret
    /\ sup' = [pc |-> "get", ret |-> 0]
    /\ UNCHANGED <<msg_queue, daq_init_queue, jobs, outbox, received, uvars, xvars>>

\* start_process, lines 82-89: the tracked process is alive
StartBusy ==
    /\ sup.pc = "get" /\ msg_queue # <<>>
    /\ Head(msg_queue).valid /\ IsRun(Head(msg_queue))
    /\ ~CanStart(process)
    /\ msg_queue' = Tail(msg_queue)
    /\ sent' = <<BusyWarning>>
    /\ retained' = Retain(retained, sent')
    /\ UNCHANGED <<daq_init_queue, process, sup, jobs, outbox, received, uvars, xvars>>

\* stop_process, lines 94-95: SIGINT to the tracked process, then join
StopAlive ==
    /\ sup.pc = "get" /\ msg_queue # <<>>
    /\ Head(msg_queue).valid /\ Head(msg_queue).topic = "measurement/stop"
    /\ CanStop(process)
    /\ msg_queue' = Tail(msg_queue)
    /\ jobs' = [jobs EXCEPT ![process].sig = TRUE]
    /\ sup' = [pc |-> "stop_join", ret |-> 0]
    /\ sent' = <<>>
    /\ UNCHANGED <<daq_init_queue, process, outbox, retained, received, uvars, xvars>>

\* stop_process, lines 96-111: join returns once the process has exited, then
\* the three publications
StopJoin ==
    /\ sup.pc = "stop_join"
    /\ ~is_alive(process)
    /\ sent' = StopCompleted
    /\ retained' = Retain(retained, sent')
    /\ sup' = [pc |-> "get", ret |-> 0]
    /\ UNCHANGED <<msg_queue, daq_init_queue, process, jobs, outbox, received, uvars, xvars>>

\* stop_process, lines 112-117: nothing is alive
StopIdle ==
    /\ sup.pc = "get" /\ msg_queue # <<>>
    /\ Head(msg_queue).valid /\ Head(msg_queue).topic = "measurement/stop"
    /\ ~CanStop(process)
    /\ msg_queue' = Tail(msg_queue)
    /\ sent' = NothingToStop
    /\ retained' = Retain(retained, sent')
    /\ UNCHANGED <<daq_init_queue, process, sup, jobs, outbox, received, uvars, xvars>>

\* msg_handler, lines 691-693
DaqInit ==
    /\ sup.pc = "get" /\ msg_queue # <<>>
    /\ Head(msg_queue).valid /\ Head(msg_queue).topic = "daq/init"
    /\ msg_queue' = Tail(msg_queue)
    /\ daq_init_queue' = Append(daq_init_queue, Head(msg_queue))
    /\ sent' = <<>>
    /\ UNCHANGED <<process, sup, jobs, outbox, retained, received, uvars, xvars>>

\* msg_handler, lines 679-682: a run request that enables no experiment
\* matches neither branch
IgnoreRun ==
    /\ sup.pc = "get" /\ msg_queue # <<>>
    /\ Head(msg_queue).valid /\ Head(msg_queue).topic = "measurement/run"
    /\ ~IsRun(Head(msg_queue))
    /\ msg_queue' = Tail(msg_queue)
    /\ sent' = <<>>
    /\ UNCHANGED <<daq_init_queue, process, sup, jobs, outbox, retained, received, uvars, xvars>>

msg_handler ==
    \/ HandleInvalid
    \/ StartNew
    \/ PublishBusy
    \/ StartBusy
    \/ StopAlive
    \/ StopJoin
    \/ StopIdle
    \/ DaqInit
    \/ IgnoreRun

\* ------------------------------------------------------ the job process: _run
\* Job j moves to position pc with user_aborted = ab, having appended the
\* payloads ms to its publisher (append_payload inside the publisher's with block).
JobMove(j, rec, pc, ab, ms) ==
    /\ jobs' = [jobs EXCEPT ![j] =
                   [rec EXCEPT !.pc = pc,
                               !.user_aborted = ab,
                               !.last = IF ms = <<>> THEN @ ELSE ms[Len(ms)],
                               !.ready = @ \/ \E i \in 1..Len(ms) :
                                                 ms[i].topic = "measurement/status"]]
    /\ outbox' = [outbox EXCEPT ![j] = @ \o ms]
    /\ UNCHANGED <<msg_queue, daq_init_queue, process, sup, retained, sent, received, uvars, xvars>>

JobStep(j, pc, ab, ms) == JobMove(j, jobs[j], pc, ab, ms)

\* fabric.connect_instruments: the instruments hs are connected
connect_instruments(rec, hs) ==
    [acquire(rec, hs) EXCEPT !.connected = @ \cup hs]

\* fabric.disconnect_all_instruments: every instrument still connected is
\* disconnected
disconnect_all_instruments(rec) == release(rec)

\* fabric.__exit__: the scope's release of what is still connected
fabric_exit(rec) == disconnect_all_instruments(rec)

\* measurement = fabric() used without its with block
LeaveFabricNoExit(rec) == rec

\* "with fabric() as measurement" (_calibrate_spectrum, line 141, and _run,
\* line 610): leaving the block, normally or by an exception, runs fabric's exit
LeaveFabric(rec) == fabric_exit(rec)

\* the positions inside _calibrate_spectrum's try block, lines 140-170
CalPcs == {"cal_try", "cal_measure"}

\* the instruments _ivt connects (lines 312-332): the SMU, and the light
\* engine when the solar simulator is enabled
IvtInstruments(args) == {"smu"} \cup IF args.enable_solarsim THEN {"light"} ELSE {}

\* the job runs its code only while no SIGINT is pending: a pending one raises
\* KeyboardInterrupt first (Interrupt)
At(j, pc) == jobs[j].pc = pc /\ ~jobs[j].sig

\* _run, lines 579-587: calibrate only for an IV request with the solar simulator
RunStart(j) ==
    /\ At(j, "start")
    /\ JobStep(j, IF jobs[j].args.IV_stuff /\ jobs[j].args.enable_solarsim
                  THEN "cal_open" ELSE "daq_open", FALSE, <<>>)

\* _calibrate_spectrum, lines 134-138
CalOpen(j) ==
    /\ At(j, "cal_open")
    /\ JobStep(j, "cal_try", FALSE, <<>>)

\* _calibrate_spectrum, lines 140-155: the light engine is connected
CalTry(j) ==
    /\ At(j, "cal_try")
    /\ JobMove(j, connect_instruments(jobs[j], {"light"}), "cal_measure", FALSE,
               <<Log(20, "Calibrating solar simulator spectrum...", j)>>)

\* _calibrate_spectrum, lines 157-170
CalMeasure(j) ==
    /\ At(j, "cal_measure")
    /\ JobMove(j, [LeaveFabric(jobs[j]) EXCEPT !.cal = "done"], "cal_ready", FALSE,
               <<Msg("calibration/spectrum", 0, "", <<>>, TRUE, j),
                 Log(20, "Finished calibrating solar simulator spectrum!", j)>>)

\* _calibrate_spectrum, lines 173-175: an instrument fault inside the try;
\* user_aborted is left as it is
CalFault(j) ==
    /\ At(j, "cal_try") \/ At(j, "cal_measure")
    /\ JobMove(j, [LeaveFabric(jobs[j]) EXCEPT !.cal = "fault"], "cal_ready", FALSE,
               <<Log(40, "SPECTRUM CALIBRATION ABORTED!", j)>>)

\* the status _calibrate_spectrum publishes at line 177
CalibrationStatus(j) == <<Status("Ready", j)>>

\* _calibrate_spectrum, line 177
CalReady(j) ==
    /\ At(j, "cal_ready")
    /\ JobStep(j, "cal_close", jobs[j].user_aborted, CalibrationStatus(j))

\* _calibrate_spectrum, lines 136 (the with block ends: the publisher is
\* drained) and 179, and _run, lines 587-590 and 605
CalClose(j) ==
    /\ At(j, "cal_close")
    /\ outbox[j] = <<>>
    /\ JobStep(j, IF jobs[j].user_aborted THEN "abort_open" ELSE "daq_open",
               jobs[j].user_aborted, <<>>)

\* _run, lines 590-595
DaqOpen(j) ==
    /\ At(j, "daq_open")
    /\ JobStep(j, "daq_close", FALSE, <<Log(20, "Checking DAQ status...", j)>>)

\* _run, line 592: the with block ends
DaqClose(j) ==
    /\ At(j, "daq_close")
    /\ outbox[j] = <<>>
    /\ JobStep(j, "daq_wait", FALSE, <<>>)

\* _run, lines 597-600: a message is in daq_init_queue
DaqAck(j) ==
    /\ At(j, "daq_wait")
    /\ daq_init_queue # <<>>
    /\ daq_init_queue' = Tail(daq_init_queue)
    /\ jobs' = [jobs EXCEPT ![j] =
                   IF Head(daq_init_queue).init_success
                   THEN [@ EXCEPT !.pc = "run_open", !.daq = "ok"]
                   ELSE [@ EXCEPT !.pc = "abort_open", !.user_aborted = TRUE,
                                  !.daq = "nack"]]
    /\ UNCHANGED <<msg_queue, process, sup, outbox, retained, sent, received, uvars, xvars>>

\* the readiness check going on to the run after its timeout
DaqTimeoutProceeds(j) ==
    /\ At(j, "daq_wait")
    /\ daq_init_queue = <<>>
    /\ JobMove(j, [jobs[j] EXCEPT !.daq = "timeout"], "run_open", FALSE, <<>>)

\* _run, lines 597 and 601-603: queue.Empty after the 30 s
DaqTimeout(j) ==
    /\ At(j, "daq_wait")
    /\ daq_init_queue = <<>>
    /\ JobMove(j, [jobs[j] EXCEPT !.daq = "timeout"], "abort_open", TRUE, <<>>)

\* _run, lines 605-608
RunOpen(j) ==
    /\ At(j, "run_open")
    /\ JobStep(j, "run_try", FALSE, <<>>)

\* _run, lines 609-616
RunTry(j) ==
    /\ At(j, "run_try")
    /\ JobStep(j, IF jobs[j].args.IV_stuff THEN "ivt_connect" ELSE "run_complete",
               FALSE, <<Log(20, "Starting run...", j)>>)

\* _run, line 617, and _ivt, lines 312-347
IvtConnect(j) ==
    /\ At(j, "ivt_connect")
    /\ JobMove(j, connect_instruments(jobs[j], IvtInstruments(jobs[j].args)),
               "ivt_loop", FALSE,
               <<Msg("daq/start", 0, "", <<>>, FALSE, j),
                 Msg("plotter/live_devices", 0, "", Devices, TRUE, j)>>)

\* _ivt, lines 350-546: the cycles
IvtLoop(j) ==
    /\ At(j, "ivt_loop")
    /\ JobStep(j, "ivt_teardown", FALSE,
               <<Log(20, "### Loop ###", j),
                 Msg("data/raw", 0, "", <<>>, FALSE, j)>>)

\* _ivt, lines 548-560: the teardown, the last statements of _ivt
IvtTeardown(j) ==
    /\ At(j, "ivt_teardown")
    /\ JobMove(j, [jobs[j] EXCEPT !.teardowns = @ + 1], "run_complete", FALSE,
               <<Msg("plotter/live_devices", 0, "", <<>>, TRUE, j),
                 Msg("daq/stop", 0, "", <<>>, FALSE, j)>>)

\* _run, lines 618-624: disconnect_all_instruments after _ivt, the log, and
\* the end of the with block
RunComplete(j) ==
    /\ At(j, "run_complete")
    /\ JobMove(j, LeaveFabric(IF jobs[j].args.IV_stuff
                              THEN disconnect_all_instruments(jobs[j])
                              ELSE jobs[j]),
               "run_close", FALSE, <<Log(20, "Run complete!", j)>>)

\* the positions of _run's try block, lines 609-624
RunPcs == {"run_try", "ivt_connect", "ivt_loop", "ivt_teardown", "run_complete"}

\* _run, lines 627-629: a fault anywhere in the try block
RunFault(j) ==
    /\ jobs[j].pc \in RunPcs /\ ~jobs[j].sig
    /\ JobMove(j, LeaveFabric(jobs[j]), "run_close", FALSE,
               <<Log(40, "RUN ABORTED! e", j)>>)

\* _run, line 606: the with block ends
RunClose(j) ==
    /\ At(j, "run_close")
    /\ outbox[j] = <<>>
    /\ JobStep(j, "final", jobs[j].user_aborted, <<>>)

\* _run, lines 630-634
AbortOpen(j) ==
    /\ At(j, "abort_open")
    /\ JobStep(j, "abort_close", TRUE, <<Log(40, "RUN ABORTED!", j)>>)

\* _run, line 631: the with block ends
AbortClose(j) ==
    /\ At(j, "abort_close")
    /\ outbox[j] = <<>>
    /\ JobStep(j, "final", TRUE, <<>>)

\* _run, line 636, and the end of the process.  The publisher mqttc was closed
\* when its with block ended (line 606 or 631); whether a payload appended to a
\* closed MQTTQueuePublisher still reaches the broker is decided by mqtt_tools,
\* not by this code, so both outcomes are kept: published, or lost.
Final(j) ==
    /\ At(j, "final")
    /\ \E published \in BOOLEAN :
          /\ jobs' = [jobs EXCEPT ![j] =
                         [@ EXCEPT !.pc = "dead",
                                   !.last = Status("Ready", j),
                                   !.ready = TRUE,
                                   !.ready_pub = @ \/ published,
                                   !.lost = ~published]]
          /\ retained' = IF published THEN Retain(retained, <<Status("Ready", j)>>)
                         ELSE retained
    /\ UNCHANGED <<msg_queue, daq_init_queue, process, sup, outbox, sent, received, uvars, xvars>>

\* Where KeyboardInterrupt takes the job from position pc:
\*   lines 171-172   inside _calibrate_spectrum's try: user_aborted, then line 177
\*   lines 601-603   inside the DAQ check's try (a bare except): user_aborted
\*   lines 625-626   inside _run's try: pass, then the with block ends
\*   elsewhere       no handler: the exception leaves _run and the process ends
InterruptTarget(pc) ==
    IF pc \in {"cal_try", "cal_measure"} THEN "cal_ready"
    ELSE IF pc \in {"daq_open", "daq_close", "daq_wait"} THEN "abort_open"
    ELSE IF pc \in RunPcs THEN "run_close"
    ELSE "dying"

\* the part of the job at position pc: calibration's try block, the readiness
\* check's try block, _run's try block, or code outside them
InterruptedIn(pc) ==
    IF pc \in CalPcs THEN "cal"
    ELSE IF pc \in {"daq_open", "daq_close", "daq_wait"} THEN "daq"
    ELSE IF pc \in RunPcs THEN "run"
    ELSE "other"

\* SIGINT (stop_process, line 95) raises KeyboardInterrupt in the job
Interrupt(j) ==
    /\ JobAlive(j) /\ jobs[j].sig
    /\ jobs' = [jobs EXCEPT ![j] =
                   [(IF jobs[j].pc \in CalPcs \cup RunPcs
                     THEN LeaveFabric(jobs[j]) ELSE jobs[j])
                       EXCEPT !.sig = FALSE,
                              !.pc = InterruptTarget(jobs[j].pc),
                              !.cal = IF jobs[j].pc \in CalPcs THEN "interrupt" ELSE @,
                              !.stopped = InterruptedIn(jobs[j].pc),
                              !.user_aborted =
                                  @ \/ jobs[j].pc \in {"cal_try", "cal_measure", "daq_open",
                                                       "daq_close", "daq_wait"}]]
    /\ UNCHANGED <<msg_queue, daq_init_queue, process, sup, outbox, retained, sent, received, uvars, xvars>>

\* an uncaught KeyboardInterrupt: the open with block, if any, drains the
\* publisher on its way out, and the process exits
Dying(j) ==
    /\ At(j, "dying")
    /\ outbox[j] = <<>>
    /\ JobStep(j, "dead", jobs[j].user_aborted, <<>>)

\* MQTTQueuePublisher's thread publishes the oldest payload of job j
Deliver(j) ==
    /\ outbox[j] # <<>>
    /\ outbox' = [outbox EXCEPT ![j] = Tail(@)]
    /\ retained' = Retain(retained, <<Head(outbox[j])>>)
    /\ jobs' = [jobs EXCEPT ![j].ready_pub =
                   @ \/ Head(outbox[j]).topic = "measurement/status"]
    /\ UNCHANGED <<msg_queue, daq_init_queue, process, sup, sent, received, uvars, xvars>>

_run(j) ==
    \/ RunStart(j)
    \/ CalOpen(j)
    \/ CalTry(j)
    \/ CalMeasure(j)
    \/ CalFault(j)
    \/ CalReady(j)
    \/ CalClose(j)
    \/ DaqOpen(j)
    \/ DaqClose(j)
    \/ DaqAck(j)
    \/ DaqTimeout(j)
    \/ RunOpen(j)
    \/ RunTry(j)
    \/ IvtConnect(j)
    \/ IvtLoop(j)
    \/ IvtTeardown(j)
    \/ RunComplete(j)
    \/ RunFault(j)
    \/ RunClose(j)
    \/ AbortOpen(j)
    \/ AbortClose(j)
    \/ Final(j)
    \/ Interrupt(j)
    \/ Dying(j)
    \/ Deliver(j)

Next ==
    \/ \E m \in InMsgs : on_message(m)
    \/ msg_handler
    \/ \E j \in JobIds : _run(j)

Spec == Init /\ [][Next]_vars

\* ------------------------------------------------------ the utility handler
\* log_msg, lines 407-412
LogMsg(level, text) == [destination |-> "status", level |-> level, text |-> text]

\* send_pos, lines 129-134
PosMsg == [destination |-> "response", level |-> 0, text |-> "pos"]

\* outputq.put never blocks; the model lets the manager and the worker put
\* only while fewer than MaxOutput messages wait for the sender
OutputRoom == Len(outputq) < MaxOutput

\* handle_message, lines 80-81
handle_message(c) ==
    /\ commands < MaxCmds
    /\ cmdq' = Append(cmdq, c)
    /\ commands' = commands + 1
    /\ UNCHANGED <<taskq, unfinished_tasks, outputq, mgr, wrk, pcb_open, estops, mvars, xvars>>

\* filter_cmd, lines 87-96: anything that is not an iterable holding 'cmd'
\* becomes {'cmd': ''}; an iterable holding 'cmd' is returned as it is
filter_cmd(c) == IF c.shape = "junk" THEN Cmd("", "dict", FALSE, FALSE) ELSE c

\* manager without the estop branch of line 106
IsEstopNever(c) == FALSE

\* manager, line 106
IsEstop(c) == c.cmd = "estop"

\* manager without the test of line 119
WorkerAlwaysAvailable == TRUE

\* manager, line 119: the worker is available
WorkerAvailable == unfinished_tasks = 0

\* manager, lines 104-106: after the log of line 105, cmd_msg['cmd'] of a
\* payload that is no mapping raises TypeError, and line 107:
\* cmd_msg['pcb_virt'] of an estop without that field raises KeyError; neither
\* is handled, and the thread ends
ManagerFault ==
    /\ OutputRoom
    /\ mgr.pc = "get" /\ cmdq # <<>>
    /\ LET c == filter_cmd(Head(cmdq)) IN
          /\ c.shape = "list" \/ (IsEstop(c) /\ ~c.pcb_virt)
          /\ mgr' = [pc |-> "dead", cmd |-> c]
    /\ outputq' = Append(outputq, LogMsg(10, "New command message!"))
    /\ cmdq' = Tail(cmdq)
    /\ UNCHANGED <<taskq, unfinished_tasks, wrk, pcb_open, estops, commands, mvars, xvars>>

\* manager, lines 104-112: an estop; the manager itself connects to the
\* controller board (the connection succeeds)
EstopConnect ==
    /\ OutputRoom
    /\ mgr.pc = "get" /\ cmdq # <<>>
    /\ LET c == filter_cmd(Head(cmdq)) IN
          /\ c.shape = "dict" /\ IsEstop(c) /\ c.pcb_virt
          /\ mgr' = [pc |-> "estop", cmd |-> c]
    /\ cmdq' = Tail(cmdq)
    /\ outputq' = Append(outputq, LogMsg(10, "New command message!"))
    /\ pcb_open' = pcb_open \cup {"manager"}
    /\ UNCHANGED <<taskq, unfinished_tasks, wrk, estops, commands, mvars, xvars>>

\* manager, lines 112-114 and 126: the stop command 'b', the connection
\* closed, the log
EstopIssue ==
    /\ OutputRoom
    /\ mgr.pc = "estop"
    /\ estops' = estops + 1
    /\ pcb_open' = pcb_open \ {"manager"}
    /\ outputq' = Append(outputq, LogMsg(20, "Emergency stop command issued."))
    /\ mgr' = [pc |-> "get", cmd |-> NoCmd]
    /\ UNCHANGED <<cmdq, taskq, unfinished_tasks, wrk, commands, mvars, xvars>>

\* manager, lines 111-118 and 126: the connection or the query fails
EstopFails ==
    /\ OutputRoom
    /\ \/ /\ mgr.pc = "get" /\ cmdq # <<>>
          /\ LET c == filter_cmd(Head(cmdq)) IN
                /\ c.shape = "dict" /\ IsEstop(c) /\ c.pcb_virt
          /\ cmdq' = Tail(cmdq)
          /\ outputq' = outputq \o <<LogMsg(10, "New command message!"),
                                     LogMsg(30, "Unable to emergency stop.")>>
       \/ /\ mgr.pc = "estop"
          /\ cmdq' = cmdq
          /\ outputq' = Append(outputq, LogMsg(30, "Unable to emergency stop."))
    /\ pcb_open' = pcb_open \ {"manager"}
    /\ mgr' = [pc |-> "get", cmd |-> NoCmd]
    /\ UNCHANGED <<taskq, unfinished_tasks, wrk, estops, commands, mvars, xvars>>

\* manager, lines 119-121 and 126: the command is put on the task queue
Admit ==
    /\ OutputRoom
    /\ mgr.pc = "get" /\ cmdq # <<>>
    /\ LET c == filter_cmd(Head(cmdq)) IN
          /\ c.shape = "dict" /\ ~IsEstop(c)
          /\ WorkerAvailable
          /\ taskq' = Append(taskq, c)
    /\ unfinished_tasks' = unfinished_tasks + 1
    /\ cmdq' = Tail(cmdq)
    /\ outputq' = Append(outputq, LogMsg(10, "New command message!"))
    /\ UNCHANGED <<mgr, wrk, pcb_open, estops, commands, mvars, xvars>>

\* manager, lines 119 and 122: the first test finds an unfinished task; the
\* second test reads the counter again
Refuse ==
    /\ OutputRoom
    /\ mgr.pc = "get" /\ cmdq # <<>>
    /\ LET c == filter_cmd(Head(cmdq)) IN
          /\ c.shape = "dict" /\ ~IsEstop(c)
          /\ ~WorkerAvailable
          /\ mgr' = [pc |-> "busy", cmd |-> c]
    /\ cmdq' = Tail(cmdq)
    /\ outputq' = Append(outputq, LogMsg(10, "New command message!"))
    /\ UNCHANGED <<taskq, unfinished_tasks, wrk, pcb_open, estops, commands, mvars, xvars>>

\* manager, lines 122-126: the busy warning, or, when the worker finished in
\* between, the debug log of the else branch
Reject ==
    /\ OutputRoom
    /\ mgr.pc = "busy"
    /\ outputq' = Append(outputq,
                         IF unfinished_tasks > 0
                         THEN LogMsg(30, "Backend busy. Command rejected.")
                         ELSE LogMsg(10, "Command message rejected"))
    /\ mgr' = [pc |-> "get", cmd |-> NoCmd]
    /\ UNCHANGED <<cmdq, taskq, unfinished_tasks, wrk, pcb_open, estops, commands, mvars, xvars>>

manager ==
    \/ ManagerFault
    \/ EstopConnect
    \/ EstopIssue
    \/ EstopFails
    \/ Admit
    \/ Refuse
    \/ Reject

\* the commands for which the worker connects to the controller board
\* (worker, lines 152, 162, 171, 183, 223)
PcbCmds == {"home", "goto", "for_pcb", "read_stage", "round_robin"}

\* the commands for which the worker connects to an instrument inside its try
\* block: the controller board, or the light engine (spec, lines 202-207)
InstrumentCmds == PcbCmds \cup {"spec"}

\* worker, line 284: after the try block, the health check, or task_done
AfterTry(task) == IF task.cmd = "check_health" THEN "health" ELSE "done"

\* worker, lines 140-150
TakeTask ==
    /\ OutputRoom
    /\ wrk.pc = "get" /\ taskq # <<>>
    /\ wrk' = [NoWork EXCEPT !.pc = "try", !.task = Head(taskq)]
    /\ taskq' = Tail(taskq)
    /\ outputq' = Append(outputq, LogMsg(10, "New task"))
    /\ UNCHANGED <<cmdq, unfinished_tasks, mgr, pcb_open, estops, commands, mvars, xvars>>

\* worker, lines 153-155, 163-165, 172, 184-186, 204-207, 225-232: what the
\* task connects to: the controller board, with the motion controller for the
\* stage commands and the SMU for round_robin, or the light engine for spec
TaskInstruments(task) ==
    IF task.cmd = "spec" THEN {"light"}
    ELSE {"pcb"} \cup (IF task.cmd \in {"home", "goto", "read_stage"} THEN {"motion"} ELSE {})
               \cup (IF task.cmd = "round_robin" THEN {"smu"} ELSE {})

\* worker, lines 153, 163, 172, 184, 207, 225: the connection opens
TaskConnect ==
    /\ wrk.pc = "try" /\ wrk.task.cmd \in InstrumentCmds
    /\ pcb_open' = IF wrk.task.cmd \in PcbCmds THEN pcb_open \cup {"worker"} ELSE pcb_open
    /\ wrk' = [acquire(wrk, TaskInstruments(wrk.task)) EXCEPT !.pc = "use"]
    /\ UNCHANGED <<cmdq, taskq, unfinished_tasks, outputq, mgr, estops, commands, mvars, xvars>>

\* worker, lines 154-159 (home), 173-180 (for_pcb, acknowledged with an empty
\* reply or not), 208-220 (spec, the intensity set or not) and 226-266
\* (round_robin): the action, the with block ends or the object is deleted,
\* the result is queued
TaskDone ==
    /\ OutputRoom
    /\ wrk.pc = "use"
    /\ pcb_open' = pcb_open \ {"worker"}
    /\ \E ack \in BOOLEAN :
          outputq' = outputq \o
                        IF wrk.task.cmd = "home"
                        THEN <<LogMsg(20, "Homing procedure complete."), PosMsg>>
                        ELSE IF wrk.task.cmd = "for_pcb"
                        THEN IF ack THEN <<LogMsg(10, "Command acknowledged")>>
                             ELSE <<LogMsg(30, "Command not acknowleged")>>
                        ELSE IF wrk.task.cmd = "spec"
                        THEN IF ack THEN <<[destination |-> "calibration/spectrum",
                                            level |-> 0, text |-> "spectrum"]>>
                             ELSE <<LogMsg(20, "Unable to set light engine intensity.")>>
                        ELSE IF wrk.task.cmd = "round_robin"
                        THEN <<LogMsg(20, "Contact check complete.")>>
                        ELSE <<PosMsg>>
    /\ wrk' = [release(wrk) EXCEPT !.pc = "done"]
    /\ UNCHANGED <<cmdq, taskq, unfinished_tasks, mgr, estops, commands, mvars, xvars>>

\* worker, lines 267-281: connecting, or the action, raises
TaskFault ==
    /\ OutputRoom
    /\ wrk.pc = "use" \/ (wrk.pc = "try" /\ wrk.task.cmd \in InstrumentCmds)
    /\ pcb_open' = pcb_open \ {"worker"}
    /\ outputq' = Append(outputq, LogMsg(30, "e"))
    /\ wrk' = [release(wrk) EXCEPT !.pc = "done"]
    /\ UNCHANGED <<cmdq, taskq, unfinished_tasks, mgr, estops, commands, mvars, xvars>>

\* worker, lines 151-284: a task whose cmd matches no branch of the try block
TaskUnknown ==
    /\ wrk.pc = "try" /\ wrk.task.cmd \notin InstrumentCmds
    /\ wrk' = [wrk EXCEPT !.pc = AfterTry(wrk.task)]
    /\ UNCHANGED <<cmdq, taskq, unfinished_tasks, outputq, mgr, pcb_open, estops,
                   commands, mvars, xvars>>

\* worker, lines 285-289: the health check connects to the controller board
HealthPcb ==
    /\ OutputRoom
    /\ wrk.pc = "health"
    /\ pcb_open' = pcb_open \cup {"worker"}
    /\ outputq' = Append(outputq, LogMsg(20, "Checking controller..."))
    /\ wrk' = [acquire(wrk, {"pcb"}) EXCEPT !.pc = "health_pcb"]
    /\ UNCHANGED <<cmdq, taskq, unfinished_tasks, mgr, estops, commands, mvars, xvars>>

\* worker, lines 289-297: the controller board answers, or does not; the with
\* block ends either way
HealthPcbDone ==
    /\ OutputRoom
    /\ wrk.pc = "health_pcb"
    /\ pcb_open' = pcb_open \ {"worker"}
    /\ \E ok \in BOOLEAN :
          /\ outputq' = Append(outputq,
                               IF ok THEN LogMsg(20, "Controller connection initiated")
                               ELSE LogMsg(30, "Could not talk to control box"))
          /\ wrk' = [release(wrk) EXCEPT !.pc = "health_psu",
                                         !.failed = IF ok THEN @ ELSE @ \cup {"pcb"}]
    /\ UNCHANGED <<cmdq, taskq, unfinished_tasks, mgr, estops, commands, mvars, xvars>>

\* worker, lines 299-401: the other instruments, each in its own try; but
\* task['psu_virt'] (line 301, like the other *_virt fields of lines 316, 349,
\* 365, 381) is read outside any try: without the field KeyError ends the thread
HealthPsu ==
    /\ OutputRoom
    /\ wrk.pc = "health_psu"
    /\ outputq' = outputq \o
                     <<LogMsg(20, "Checking power supply...")>> \o
                     IF wrk.task.psu_virt
                     THEN <<LogMsg(20, "Power supply looks virtually great!")>>
                     ELSE <<>>
    /\ wrk' = [wrk EXCEPT !.pc = IF wrk.task.psu_virt THEN "done" ELSE "dead"]
    /\ UNCHANGED <<cmdq, taskq, unfinished_tasks, mgr, pcb_open, estops, commands, mvars, xvars>>

\* worker, line 403
task_done ==
    /\ wrk.pc = "done"
    /\ unfinished_tasks' = unfinished_tasks - 1
    /\ wrk' = NoWork
    /\ UNCHANGED <<cmdq, taskq, outputq, mgr, pcb_open, estops, commands, mvars, xvars>>

worker ==
    \/ TakeTask
    \/ TaskConnect
    \/ TaskDone
    \/ TaskFault
    \/ TaskUnknown
    \/ HealthPcb
    \/ HealthPcbDone
    \/ HealthPsu
    \/ task_done

\* sender taking the newest message of outputq instead of the oldest
senderNewestFirst ==
    /\ outputq # <<>>
    /\ outputq' = SubSeq(outputq, 1, Len(outputq) - 1)
    /\ UNCHANGED <<cmdq, taskq, unfinished_tasks, mgr, wrk, pcb_open, estops, commands, mvars, xvars>>

\* sender, lines 416-420: one step gets the oldest message of outputq,
\* publishes it, waits for the publication to complete and calls task_done
sender ==
    /\ outputq # <<>>
    /\ outputq' = Tail(outputq)
    /\ UNCHANGED <<cmdq, taskq, unfinished_tasks, mgr, wrk, pcb_open, estops, commands, mvars, xvars>>

UtilityNext ==
    \/ \E c \in Cmds : handle_message(c)
    \/ manager
    \/ worker
    \/ sender

UtilitySpec == Init /\ [][UtilityNext]_vars

\* The measurement server and the utility handler are two programs that share
\* no state: a behaviour of EitherSpec is a run of one of them.
EitherNext ==
    \/ commands = 0 /\ Next
    \/ received = 0 /\ UtilityNext

EitherSpec == Init /\ [][EitherNext]_vars

\* ------------------------------------------------------------ _ivt in detail
\* one thing _ivt publishes or switches
Ev(k, v) == [k |-> k, v |-> v]

\* _log, level 20 unless said otherwise
PhaseLog(text) == Ev("log", text)

\* line 418
FirstSweepLog(sweep) ==
    PhaseLog(IF sweep = "dark" THEN "Performing first dark sweep."
             ELSE "Performing first light sweep.")

\* line 448
SecondSweepLog(sweep) ==
    PhaseLog(IF sweep = "dark" THEN "Performing second dark sweep."
             ELSE "Performing second light sweep.")

\* _clear_plot, lines 284-295
ClearPlot(kind) == Ev("clear", kind)

\* measurement.le.on() and measurement.le.off()
Light(state) == Ev("light", state)

\* a plotter/live_devices publication; the list itself is in live
LiveDevices == Ev("live", "")

\* the device labels of the pixels in px (lines 346, 512-514)
Labels(px) == {Devices[c] : c \in px}

\* sorted(), on a set of channels
RECURSIVE sorted(_)
sorted(S) ==
    IF S = {} THEN <<>>
    ELSE LET m == CHOOSE x \in S : \A y \in S : x <= y
         IN  <<m>> \o sorted(S \ {m})

\* DataHandler.handle_data without the KeyError guard
handle_data_unguarded(px, data) == sorted(data)

\* DataHandler.handle_data, lines 260-281: the channels of the data/raw
\* records it appends for the batch data, in order
handle_data(px, data) == SelectSeq(sorted(data), LAMBDA ch : ch \in px)

\* lines 396-406 with the lists of selectors 0 and 1 exchanged
SweepsSwapped(s) ==
    IF s = 0 THEN <<"light", "dark">>
    ELSE IF s = 1 THEN <<"dark", "light">>
    ELSE IF s = 2 THEN <<"dark">>
    ELSE IF s = 3 THEN <<"light">>
    ELSE <<>>

\* lines 396-406
Sweeps(s) ==
    IF s = 0 THEN <<"dark", "light">>
    ELSE IF s = 1 THEN <<"light", "dark">>
    ELSE IF s = 2 THEN <<"dark">>
    ELSE IF s = 3 THEN <<"light">>
    ELSE <<>>

IvtAt(pc) == ivt.pc = pc

IvtGo(pc) == ivt' = [ivt EXCEPT !.pc = pc]

Emit(es) == events' = events \o es

\* dh.kind = kind at the start of a phase
SetKind(kind) == dh' = [kind |-> kind, batch |-> {}, records |-> <<>>]

\* a measurement routine returns: the batch it handed to the handler last is
\* no longer referenced
Returned == dh' = [dh EXCEPT !.batch = {}, !.records = <<>>]

\* lines 312-347: instruments connected, daq/start, the live-device list
IvtStart(args, n) ==
    /\ IvtAt("idle")
    /\ ivt' = [ivt EXCEPT !.pc = "loop_test", !.args = args]
    /\ pixels' = 1..n
    /\ live' = Labels(1..n)
    /\ UNCHANGED <<events, dh, mvars, uvars, pvars>>

\* lines 351-364: the loop test, the loop log, the compliance guess from the
\* first pixel (IndexError when the queue is empty) and a new DataHandler
LoopEnter ==
    /\ IvtAt("loop_test")
    /\ ivt.loop < ivt.args.cycles \/ ivt.args.cycles = 0
    /\ ivt.loop < MaxCycles
    /\ ivt' = [ivt EXCEPT !.loop = @ + 1,
                          !.pc = IF pixels = {} THEN "fault" ELSE "voc_if"]
    /\ events' = <<PhaseLog("### Loop ###")>>
    /\ dh' = NoData
    /\ UNCHANGED <<pixels, live, mvars, uvars, pvars>>

\* line 351, the loop test failing
LoopExit ==
    /\ IvtAt("loop_test")
    /\ ~(ivt.loop < ivt.args.cycles \/ ivt.args.cycles = 0)
    /\ IvtGo("teardown")
    /\ UNCHANGED <<pixels, events, live, dh, mvars, uvars, pvars>>

\* lines 367-374
VocStart ==
    /\ IvtAt("voc_if")
    /\ IF ivt.args.i_dwell > 0
       THEN /\ Emit(<<PhaseLog("Measuring steady-state Voc"), Light("on"),
                      ClearPlot("vt_measurement")>>)
            /\ SetKind("vt_measurement")
            /\ IvtGo("voc")
       ELSE /\ IvtGo("sweeps_if")
            /\ UNCHANGED <<events, dh>>
    /\ UNCHANGED <<pixels, live, mvars, uvars, pvars>>

\* lines 376-391: steady_state returns
VocEnd ==
    /\ IvtAt("voc")
    /\ IvtGo("sweeps_if")
    /\ Returned
    /\ UNCHANGED <<pixels, events, live, mvars, uvars, pvars>>

\* lines 394-406
SweepsSelect ==
    /\ IvtAt("sweeps_if")
    /\ ivt' = [ivt EXCEPT !.pc = "sweep_next",
                          !.sweeps = IF ivt.args.sweep_check
                                     THEN Sweeps(ivt.args.lit_sweep) ELSE <<>>]
    /\ UNCHANGED <<pixels, events, live, dh, mvars, uvars, pvars>>

\* lines 409-429: the next sweep of the list, its light and its first sweep
SweepNext ==
    /\ IvtAt("sweep_next")
    /\ IF ivt.sweeps = <<>>
       THEN /\ IvtGo("mppt_if")
            /\ UNCHANGED <<events, dh>>
       ELSE LET sweep == Head(ivt.sweeps)
                le == Light(IF sweep = "dark" THEN "off" ELSE "on")
            IN  IF ivt.args.sweep_check
                THEN /\ Emit(<<le, FirstSweepLog(sweep),
                               ClearPlot("iv_measurement")>>)
                     /\ SetKind("iv_measurement/1")
                     /\ IvtGo("sweep1")
                ELSE /\ Emit(<<le>>)
                     /\ IvtGo("sweep2_if")
                     /\ UNCHANGED dh
    /\ UNCHANGED <<pixels, live, mvars, uvars, pvars>>

\* lines 430-445: measurement.sweep returns
Sweep1End ==
    /\ IvtAt("sweep1")
    /\ IvtGo("sweep2_if")
    /\ Returned
    /\ UNCHANGED <<pixels, events, live, mvars, uvars, pvars>>

\* lines 447-455: the return sweep, which clears no plot
Sweep2Start ==
    /\ IvtAt("sweep2_if")
    /\ IF ivt.args.return_switch
       THEN /\ Emit(<<SecondSweepLog(Head(ivt.sweeps))>>)
            /\ SetKind("iv_measurement/2")
            /\ IvtGo("sweep2")
       ELSE /\ ivt' = [ivt EXCEPT !.pc = "sweep_next", !.sweeps = Tail(@)]
            /\ UNCHANGED <<events, dh>>
    /\ UNCHANGED <<pixels, live, mvars, uvars, pvars>>

\* lines 456-473: measurement.sweep returns
Sweep2End ==
    /\ IvtAt("sweep2")
    /\ ivt' = [ivt EXCEPT !.pc = "sweep_next", !.sweeps = Tail(@)]
    /\ Returned
    /\ UNCHANGED <<pixels, events, live, mvars, uvars, pvars>>

\* the same starting the phase whatever mppt_dwell is
MpptStartAlways ==
    /\ IvtAt("mppt_if")
    /\ Emit(<<Light("on"), PhaseLog("Performing max. power tracking."),
              ClearPlot("mppt_measurement")>>)
    /\ SetKind("mppt_measurement")
    /\ ivt' = [ivt EXCEPT !.pc = "mppt", !.pre = Cardinality(pixels)]
    /\ UNCHANGED <<pixels, live, mvars, uvars, pvars>>

\* lines 476-491
MpptStart ==
    /\ IvtAt("mppt_if")
    /\ IF ivt.args.mppt_dwell > 0
       THEN /\ Emit(<<Light("on"), PhaseLog("Performing max. power tracking."),
                      ClearPlot("mppt_measurement")>>)
            /\ SetKind("mppt_measurement")
            /\ ivt' = [ivt EXCEPT !.pc = "mppt", !.pre = Cardinality(pixels)]
       ELSE /\ IvtGo("jsc_if")
            /\ UNCHANGED <<events, dh>>
    /\ UNCHANGED <<pixels, live, mvars, uvars, pvars>>

\* pre_mppt_pix is not read again after the comparison of line 504
MpptReturn(pc) == ivt' = [ivt EXCEPT !.pc = pc, !.pre = 0]

\* the same with the break of line 510 left out
MpptEndNoBreak ==
    /\ IvtAt("mppt")
    /\ LET post_mppt_pix == Cardinality(pixels)
       IN  IF ivt.pre # post_mppt_pix
           THEN IF post_mppt_pix = 0
                THEN /\ Emit(<<Ev("log30", "No devices left to measure."),
                               LiveDevices>>)
                     /\ live' = {}
                     /\ MpptReturn("vt")
                ELSE /\ Emit(<<LiveDevices>>)
                     /\ live' = Labels(pixels)
                     /\ MpptReturn("vt")
           ELSE /\ MpptReturn("vt")
                /\ UNCHANGED <<events, live>>
    /\ Returned
    /\ UNCHANGED <<pixels, mvars, uvars, pvars>>

\* the same republishing the list whether or not the size changed
MpptEndRepublishes ==
    /\ IvtAt("mppt")
    /\ IF Cardinality(pixels) = 0
       THEN /\ Emit(<<Ev("log30", "No devices left to measure."), LiveDevices>>)
            /\ live' = {}
            /\ MpptReturn("teardown")
       ELSE /\ Emit(<<LiveDevices>>)
            /\ live' = Labels(pixels)
            /\ MpptReturn("vt")
    /\ Returned
    /\ UNCHANGED <<pixels, mvars, uvars, pvars>>

\* lines 492-518: track_max_power returns and the queue's size is compared
MpptEnd ==
    /\ IvtAt("mppt")
    /\ LET post_mppt_pix == Cardinality(pixels)
       IN  IF ivt.pre # post_mppt_pix
           THEN IF post_mppt_pix = 0
                THEN /\ Emit(<<Ev("log30", "No devices left to measure."),
                               LiveDevices>>)
                     /\ live' = {}
                     /\ MpptReturn("teardown")
                ELSE /\ Emit(<<LiveDevices>>)
                     /\ live' = Labels(pixels)
                     /\ MpptReturn("vt")
           ELSE /\ MpptReturn("vt")
                /\ UNCHANGED <<events, live>>
    /\ Returned
    /\ UNCHANGED <<pixels, mvars, uvars, pvars>>

\* lines 520-523: the batches of vt have been handled
VtEnd ==
    /\ IvtAt("vt")
    /\ IvtGo("jsc_if")
    /\ Returned
    /\ UNCHANGED <<pixels, events, live, mvars, uvars, pvars>>

\* lines 526-534
JscStart ==
    /\ IvtAt("jsc_if")
    /\ IF ivt.args.v_dwell > 0
       THEN /\ Emit(<<Light("on"),
                      PhaseLog("Measuring current at constant voltage."),
                      ClearPlot("it_measurement")>>)
            /\ SetKind("it_measurement")
            /\ IvtGo("jsc")
       ELSE /\ IvtGo("loop_end")
            /\ UNCHANGED <<events, dh>>
    /\ UNCHANGED <<pixels, live, mvars, uvars, pvars>>

\* lines 536-544: steady_state returns
JscEnd ==
    /\ IvtAt("jsc")
    /\ IvtGo("loop_end")
    /\ Returned
    /\ UNCHANGED <<pixels, events, live, mvars, uvars, pvars>>

\* line 546
LoopEnd ==
    /\ IvtAt("loop_end")
    /\ Emit(<<PhaseLog("")>>)
    /\ ivt' = [ivt EXCEPT !.pc = "loop_test", !.completed = @ + 1]
    /\ UNCHANGED <<pixels, live, dh, mvars, uvars, pvars>>

\* lines 548-560
IvtEnd ==
    /\ IvtAt("teardown")
    /\ Emit(<<LiveDevices, Light("off"), Ev("daq", "stop")>>)
    /\ live' = {}
    /\ ivt' = [ivt EXCEPT !.pc = "done", !.teardowns = @ + 1]
    /\ UNCHANGED <<pixels, dh, mvars, uvars, pvars>>

\* where a measurement routine runs with pixels and handler
MeasurePcs == {"voc", "sweep1", "sweep2", "mppt", "jsc"}

\* the handler is called with a batch (lines 260-281; line 521 sets the kind
\* for the batches of vt)
HandleData(data) ==
    /\ ivt.pc \in MeasurePcs \cup {"vt"}
    /\ dh' = [kind |-> IF IvtAt("vt") THEN "vtmppt_measurement" ELSE dh.kind,
              batch |-> data,
              records |-> handle_data(pixels, data)]
    /\ UNCHANGED <<ivt, pixels, events, live, mvars, uvars, pvars>>

\* a measurement routine takes a device out of the queue it was given
\* (the queue is only ever changed by removal)
Prune(ch) ==
    /\ ivt.pc \in MeasurePcs
    /\ ch \in pixels
    /\ pixels' = pixels \ {ch}
    /\ UNCHANGED <<ivt, events, live, dh, mvars, uvars, pvars>>

\* where _ivt is running
IvtPcs ==
    {"loop_test", "voc_if", "voc", "sweeps_if", "sweep_next", "sweep1",
     "sweep2_if", "sweep2", "mppt_if", "mppt", "vt", "jsc_if", "jsc",
     "loop_end", "teardown"}

\* KeyboardInterrupt (stop_process, line 95) or any other exception leaves
\* _ivt where it is, and its locals with it: how is "interrupted" or "fault"
IvtRaise(how) ==
    /\ ivt.pc \in IvtPcs
    /\ ivt' = [ivt EXCEPT !.pc = how, !.sweeps = <<>>, !.pre = 0]
    /\ dh' = NoData
    /\ UNCHANGED <<pixels, events, live, mvars, uvars, pvars>>

IvtNext ==
    \/ \E args \in IvtArgs, n \in Channels : IvtStart(args, n)
    \/ LoopEnter
    \/ LoopExit
    \/ VocStart
    \/ VocEnd
    \/ SweepsSelect
    \/ SweepNext
    \/ Sweep1End
    \/ Sweep2Start
    \/ Sweep2End
    \/ MpptStart
    \/ MpptEnd
    \/ VtEnd
    \/ JscStart
    \/ JscEnd
    \/ LoopEnd
    \/ IvtEnd
    \/ \E data \in SUBSET Channels \ {{}} : HandleData(data)
    \/ \E ch \in Channels : Prune(ch)
    \/ \E how \in {"interrupted", "fault"} : IvtRaise(how)

IvtSpec == Init /\ [][IvtNext]_vars

\* ================================================================== claims
\* the supervisor takes the message at the head of msg_queue in this step
Handles(m) ==
    /\ sup.pc = "get" /\ msg_queue # <<>> /\ Head(msg_queue) = m
    /\ msg_queue' = Tail(msg_queue)

\* C1: at most one measurement job process is alive at any time.
C1_SingleFlight == Cardinality(AliveJobs) <= 1

\* a run command has just been refused while a job was alive
C1_Witness ==
    /\ Cardinality(AliveJobs) = 1
    /\ Len(sent) = 1 /\ sent[1].text = "Measurement server busy!"

\* C2, as stated: every run command that arrives while a job is alive starts
\* no process, publishes exactly one level-30 log on measurement/log and no
\* status, and leaves the tracked handle unchanged.
C2_AnyRunWhileAlive ==
    [][\A m \in RunMsgs :
          (Handles(m) /\ AliveJobs # {}) =>
              /\ jobs' = jobs /\ process' = process /\ sup' = sup
              /\ retained' = retained
              /\ Len(sent') = 1
              /\ sent'[1].topic = "measurement/log" /\ sent'[1].level = 30]_vars

\* C2, amended: the same for every run command whose request enables an
\* experiment (enable_eqe or enable_iv).
C2_EnabledRunWhileAlive ==
    [][\A m \in RunMsgs :
          (Handles(m) /\ IsRun(m) /\ AliveJobs # {}) =>
              /\ jobs' = jobs /\ process' = process /\ sup' = sup
              /\ retained' = retained
              /\ Len(sent') = 1
              /\ sent'[1].topic = "measurement/log" /\ sent'[1].level = 30
              /\ sent'[1].text = "Measurement server busy!"]_vars

\* a run command was refused while the job was alive and Busy was retained
C2_Witness ==
    /\ AliveJobs # {} /\ process \in AliveJobs
    /\ retained.status = "Busy"
    /\ Len(sent) = 1 /\ sent[1].text = "Measurement server busy!" /\ sent[1].level = 30

\* every publication of the supervisor and of the jobs has been delivered, and
\* none was lost
AllDelivered ==
    /\ sup.pc = "get"
    /\ \A j \in JobIds : outbox[j] = <<>> /\ ~jobs[j].lost

\* C3: once a job has ended and all pending publications are delivered, the
\* retained measurement/status is Ready.
C3_ReadyAfterJobEnds ==
    (Launched > 0 /\ AliveJobs = {} /\ AllDelivered) => retained.status = "Ready"

\* C4: the Busy status of a job is never observed after a Ready status
\* published by that same job.
C4_NoBusyAfterReady ==
    \A j \in JobIds :
        (retained.status = "Busy" /\ retained.status_job = j) => ~jobs[j].ready_pub

\* the positions of _run at which a phase of the job is still to run
PhasePcs == {"daq_open", "daq_close", "daq_wait", "run_open"} \cup RunPcs

\* C5: Busy is published only for a job launched while no other was running,
\* and no Ready status is published for a job that goes on to run further phases.
C5_ReadyOnlyWhenJobEnds ==
    /\ sup.pc = "start_publish" => AliveJobs \subseteq {sup.ret}
    /\ \A j \in JobIds : jobs[j].ready_pub => jobs[j].pc \notin PhasePcs

\* C6: on every path through a job, the last event the job emitted when it
\* ends is measurement/status = Ready.
C6_ReadyIsLastEvent ==
    \A j \in JobIds :
        jobs[j].pc = "dead" =>
            jobs[j].last.topic = "measurement/status" /\ jobs[j].last.text = "Ready"

\* C7: stop while no job is alive publishes exactly one "nothing to stop" log
\* and changes nothing else: no signal, no status, no live-device list, the
\* same tracked handle.
C7_StopWhileIdle ==
    [][(Handles(StopMsg) /\ AliveJobs = {}) =>
          /\ jobs' = jobs /\ process' = process /\ sup' = sup /\ outbox' = outbox
          /\ retained' = retained /\ daq_init_queue' = daq_init_queue
          /\ Len(sent') = 1
          /\ sent'[1].topic = "measurement/log"
          /\ sent'[1].text = "Nothing to stop. Measurement server is idle."]_vars

\* a stop was answered with "nothing to stop" and the next stop is at the
\* head of the queue, still with no job alive
C7_Witness ==
    /\ AliveJobs = {} /\ sup.pc = "get"
    /\ Len(sent) = 1 /\ sent[1].text = "Nothing to stop. Measurement server is idle."
    /\ msg_queue # <<>> /\ Head(msg_queue) = StopMsg

\* C8: a stop of a live job publishes, after the job has exited and in this
\* order, the log "stop completed", retained Ready and a retained empty
\* live-device list.
C8_StopWhileBusy ==
    (sup.pc = "get" /\ Len(sent) = 3 /\ sent[1].text = "Request to stop completed!") =>
        /\ ~is_alive(process)
        /\ sent[2].topic = "measurement/status" /\ sent[2].text = "Ready" /\ sent[2].retain
        /\ sent[3].topic = "plotter/live_devices" /\ sent[3].devs = <<>> /\ sent[3].retain
        /\ retained.status = "Ready" /\ retained.live = <<>>

\* the manager takes the command at the head of cmdq in this step
ManagerTakes(c) ==
    /\ mgr.pc = "get" /\ cmdq # <<>> /\ filter_cmd(Head(cmdq)) = c
    /\ cmdq' = Tail(cmdq)

\* the worker has taken a task and not yet called task_done
Executing == IF wrk.pc # "get" THEN 1 ELSE 0

\* C9: an estop is never on the task queue nor in the worker's hands; the
\* manager's own steps on it leave the task queue, the count of unfinished
\* tasks and the task in progress unchanged; the manager acts on it in the step
\* that takes it, whatever the count of unfinished tasks, and only the manager
\* sends the stop command to the controller board.
C9_EstopBypassesQueue ==
    /\ [](/\ \A i \in 1..Len(taskq) : taskq[i].cmd # "estop"
          /\ wrk.task.cmd # "estop")
    /\ [][\A c \in Cmds :
            (c.cmd = "estop" /\ (ManagerTakes(c) \/ (mgr.pc = "estop" /\ mgr' # mgr))) =>
                /\ taskq' = taskq /\ unfinished_tasks' = unfinished_tasks /\ wrk' = wrk]_vars
    /\ [][\A c \in Cmds :
            (c.cmd = "estop" /\ c.pcb_virt /\ ManagerTakes(c)) =>
                \/ mgr'.pc = "estop" /\ "manager" \in pcb_open'
                \/ /\ mgr'.pc = "get"
                   /\ outputq'[Len(outputq')].text = "Unable to emergency stop."]_vars
    /\ [][estops' # estops =>
            /\ mgr.pc = "estop" /\ mgr'.pc = "get" /\ estops' = estops + 1
            /\ taskq' = taskq /\ unfinished_tasks' = unfinished_tasks /\ wrk' = wrk]_vars

\* the manager is connected to the controller board for an estop while the
\* worker is in the middle of a task
C9_Witness ==
    /\ mgr.pc = "estop" /\ "manager" \in pcb_open
    /\ unfinished_tasks = 1 /\ wrk.pc = "use"

\* C10: the task queue never has more than one unfinished task, pending or
\* executing.
C10_OneUnfinishedTask ==
    /\ unfinished_tasks <= 1
    /\ Len(taskq) + Executing <= 1
    /\ Len(taskq) + Executing = unfinished_tasks

\* a command is being refused while the worker is in the middle of a task
C10_Witness ==
    /\ mgr.pc = "busy" /\ mgr.cmd.cmd # "estop"
    /\ unfinished_tasks = 1 /\ wrk.pc = "use"

\* C11: a command other than estop that the manager takes while a task is
\* unfinished is not put on the task queue, and is answered with the "busy"
\* warning, and with nothing else, when the manager lets go of it.
C11_BusyRejected ==
    /\ [][\A c \in Cmds :
            (filter_cmd(c).shape = "dict" /\ ~IsEstop(filter_cmd(c))
                /\ ManagerTakes(filter_cmd(c)) /\ unfinished_tasks > 0) =>
                /\ taskq' = taskq /\ unfinished_tasks' = unfinished_tasks
                /\ mgr'.pc = "busy"]_vars
    /\ [][(mgr.pc = "busy" /\ mgr' # mgr) =>
            /\ taskq' = taskq /\ unfinished_tasks' = unfinished_tasks
            /\ Len(outputq') = Len(outputq) + 1
            /\ outputq'[Len(outputq')].level = 30
            /\ outputq'[Len(outputq')].text = "Backend busy. Command rejected."]_vars

\* the commands the worker has a branch for (worker, lines 152-284)
KnownCmds == {"home", "goto", "for_pcb", "read_stage", "mono_zero", "spec",
              "round_robin", "check_health"}

\* C12: a message that does not deserialize, has no cmd field or carries an
\* unrecognized cmd is never on the task queue and never in the worker's hands.
C12_UnknownNeverQueued ==
    /\ \A i \in 1..Len(taskq) : taskq[i].cmd \in KnownCmds
    /\ wrk.pc # "get" => wrk.task.cmd \in KnownCmds

\* C13: no message ends the manager loop.
C13_ManagerSurvives == mgr.pc # "dead"

\* C14: a task that is unfinished can always still be finished: the worker
\* thread has not ended while its task is not marked done.
C14_TaskAlwaysDone == unfinished_tasks > 0 => wrk.pc # "dead"

\* C15: the controller board is never held by the manager and the worker (or
\* by any two contexts) at the same time.
C15_OneHolder == Cardinality(pcb_open) <= 1

EndedPcs == {"run_complete", "run_close", "final", "dead"}

\* C17: once _ivt has connected the instruments, however the IV sequence ends,
\* its teardown has run exactly once (source output off, light off, live-device
\* list cleared, daq/stop sent).
C17_TeardownAlwaysRuns ==
    \A j \in JobIds :
        ("smu" \in jobs[j].connected /\ jobs[j].pc \in EndedPcs) =>
            jobs[j].teardowns = 1

\* C18: a job is in the run, or has connected the SMU, only after it took an
\* acknowledgement with init_success true from daq_init_queue; after a timeout
\* or an acknowledgement with init_success false the run is marked aborted and
\* goes to the abort branch without connecting the SMU.
C18_RunOnlyAfterDaqAck ==
    \A j \in JobIds :
        /\ (jobs[j].pc \in RunPcs \cup {"run_open"} \/ "smu" \in jobs[j].connected) =>
               jobs[j].daq = "ok"
        /\ jobs[j].daq \in {"nack", "timeout"} =>
               /\ jobs[j].user_aborted
               /\ "smu" \notin jobs[j].connected /\ jobs[j].teardowns = 0
               /\ jobs[j].pc \in {"abort_open", "abort_close", "final", "dying", "dead"}

\* one job ended after the timeout of its readiness check, and the next one,
\* acknowledged, has connected the SMU
C18_Witness ==
    \E i, j \in JobIds :
        /\ jobs[i].daq = "timeout" /\ jobs[i].pc = "dead"
        /\ jobs[j].daq = "ok" /\ jobs[j].pc = "ivt_loop" /\ "smu" \in jobs[j].held

\* C19: when the readiness check times out, the job has attempted no
\* instrument connection, and it reaches its final status with the abort log
\* as its last log.
C19_DaqTimeoutNoInstruments ==
    \A j \in JobIds :
        jobs[j].daq = "timeout" =>
            /\ jobs[j].connected = {}
            /\ jobs[j].pc = "final" =>
                   jobs[j].last.level = 40 /\ jobs[j].last.text = "RUN ABORTED!"

\* C20: after a calibration that ended with an interrupt or with another
\* exception the job runs neither the readiness check nor any phase, and the
\* exception was logged with severity 40.
C20_CalibrationFailureAborts ==
    \A j \in JobIds :
        /\ jobs[j].cal \in {"fault", "interrupt"} =>
               jobs[j].pc \notin PhasePcs /\ jobs[j].daq = ""
        /\ (jobs[j].cal = "fault" /\ jobs[j].pc = "cal_ready") =>
               jobs[j].last.level = 40

\* C21: a job whose run was ended by a user interrupt, observed during
\* calibration, during the readiness check or during the run, emits no
\* severity-40 log for it.
C21_InterruptNotAnError ==
    \A j \in JobIds :
        jobs[j].stopped \in {"cal", "daq", "run"} => jobs[j].last.level # 40

\* ------------------------------------------------------- claims about _ivt
\* the plot clears and the phase logs of dwells, sweeps and tracking in es
IsPhaseStart(e) ==
    \/ e.k = "clear"
    \/ /\ e.k = "log"
       /\ e.v \in {"Measuring steady-state Voc",
                   "Performing first dark sweep.", "Performing first light sweep.",
                   "Performing second dark sweep.", "Performing second light sweep.",
                   "Performing max. power tracking.",
                   "Measuring current at constant voltage."}

PhaseStarts(es) == SelectSeq(es, IsPhaseStart)

C23_StopAfterFirstCycle ==
    (ivt.pc = "interrupted" /\ ivt.args.cycles = 0 /\ ivt.completed = 1)
        => (ivt.loop = 1 /\ ivt.teardowns = 1)

\* the kind of plot each clear of es is for, in order
RECURSIVE Clears(_)
Clears(es) ==
    IF es = <<>> THEN <<>>
    ELSE IF Head(es).k = "clear" THEN <<Head(es).v>> \o Clears(Tail(es))
    ELSE Clears(Tail(es))

\* s without the repetitions of an element next to itself
RECURSIVE Dedup(_)
Dedup(s) ==
    IF Len(s) < 2 THEN s
    ELSE IF s[1] = s[2] THEN Dedup(Tail(s))
    ELSE <<s[1]>> \o Dedup(Tail(s))

\* the phases that cleared their plot in es, in order
PhasesRun(es) == Dedup(Clears(es))

Opt(cond, x) == IF cond THEN <<x>> ELSE <<>>

\* the enabled phases of a cycle, in the fixed order
EnabledPhases(args) ==
    Opt(args.i_dwell > 0, "vt_measurement")
    \o Opt(args.sweep_check, "iv_measurement")
    \o Opt(args.mppt_dwell > 0, "mppt_measurement")
    \o Opt(args.v_dwell > 0, "it_measurement")

\* the same without the Jsc dwell
EnabledUpToTracking(args) ==
    Opt(args.i_dwell > 0, "vt_measurement")
    \o Opt(args.sweep_check, "iv_measurement")
    \o Opt(args.mppt_dwell > 0, "mppt_measurement")

IsPrefix(s, t) == Len(s) <= Len(t) /\ SubSeq(t, 1, Len(s)) = s

\* the loop has been left, or the cycle ran to its end
CycleOver == ivt.loop > 0 /\ ivt.pc \in {"loop_test", "teardown", "done"}

\* C26 as claimed: in every cycle the phases that ran are exactly the enabled
\* ones, in the order Voc dwell, sweeps, tracking, Jsc dwell.
C26_EnabledPhasesRun == CycleOver => PhasesRun(events) = EnabledPhases(ivt.args)

\* C26, amended: the phases of a cycle start in the order Voc dwell, sweeps,
\* tracking, Jsc dwell; a cycle that runs to its end ran exactly the enabled
\* ones, and a cycle that tracking ended by emptying the queue ran exactly the
\* enabled ones up to tracking.
C26_PhasesInOrder ==
    /\ ivt.loop > 0 => IsPrefix(PhasesRun(events), EnabledPhases(ivt.args))
    /\ CycleOver /\ ivt.completed = ivt.loop
           => PhasesRun(events) = EnabledPhases(ivt.args)
    /\ CycleOver /\ ivt.completed < ivt.loop
           => PhasesRun(events) = EnabledUpToTracking(ivt.args)

\* the request with only the Voc dwell enabled and one cycle has been torn
\* down after one vt_measurement clear
C26_Witness ==
    /\ ivt.pc = "done" /\ ivt.teardowns = 1
    /\ ivt.args.i_dwell > 0 /\ ~ivt.args.sweep_check
    /\ ivt.args.mppt_dwell = 0 /\ ivt.args.v_dwell = 0 /\ ivt.args.cycles = 1
    /\ Clears(events) = <<"vt_measurement">>

\* the sweep logs of es, in order
SweepLogs(es) ==
    SelectSeq(es, LAMBDA e : e \in {FirstSweepLog("dark"), FirstSweepLog("light"),
                                    SecondSweepLog("dark"), SecondSweepLog("light")})

\* the forward sweep of a polarity and, when enabled, its return sweep
SweepPair(sweep, return_switch) ==
    <<FirstSweepLog(sweep)>> \o Opt(return_switch, SecondSweepLog(sweep))

\* the sweeps the selector stands for: dark then light, light then dark,
\* dark only, light only
SweepsClaimed(args) ==
    LET dark == SweepPair("dark", args.return_switch)
        light == SweepPair("light", args.return_switch)
    IN  CASE args.lit_sweep = 0 -> dark \o light
          [] args.lit_sweep = 1 -> light \o dark
          [] args.lit_sweep = 2 -> dark
          [] args.lit_sweep = 3 -> light

\* C27: the sweeps of a cycle are those of the selector (0: dark then light,
\* 1: light then dark, 2: dark, 3: light), the return sweep of a polarity,
\* when enabled, right after its forward sweep; the light is switched off
\* right before each dark forward sweep and on right before each light one.
C27_SweepsOfSelector ==
    /\ ivt.pc = "mppt_if"
           => SweepLogs(events) = IF ivt.args.sweep_check
                                  THEN SweepsClaimed(ivt.args) ELSE <<>>
    /\ \A i \in 1..Len(events) :
           /\ events[i] = FirstSweepLog("dark")
                  => i > 1 /\ events[i - 1] = Light("off")
           /\ events[i] = FirstSweepLog("light")
                  => i > 1 /\ events[i - 1] = Light("on")

\* the sweeps of selector 1 with the return sweep are over
C27_Witness ==
    /\ ivt.pc = "mppt_if"
    /\ ivt.args.sweep_check /\ ivt.args.lit_sweep = 1 /\ ivt.args.return_switch
    /\ Len(SweepLogs(events)) = 4

\* track_max_power returns in this step
TrackingOver == ivt.pc = "mppt" /\ ivt'.pc \in {"vt", "teardown"}

\* C28: when tracking is over and the queue shrank during it, the live-device
\* list is republished: the labels of the devices still queued when some
\* remain, or a warning, the empty list and the end of the loop when none
\* remain (teardown comes next); when the size did not change nothing is
\* published.
C28_RepublishAfterTracking ==
    [][/\ TrackingOver =>
              IF Cardinality(pixels) = ivt.pre
              THEN events' = events /\ live' = live /\ ivt'.pc = "vt"
              ELSE IF pixels # {}
              THEN /\ events' = events \o <<LiveDevices>>
                   /\ live' = Labels(pixels)
                   /\ ivt'.pc = "vt"
              ELSE /\ events' = events \o <<Ev("log30", "No devices left to measure."),
                                            LiveDevices>>
                   /\ live' = {}
                   /\ ivt'.pc = "teardown"
       /\ ivt.pc = "teardown" => ivt'.pc \in {"done", "interrupted", "fault"}]_vars

\* tracking emptied the queue of a request with the Jsc dwell and a further
\* cycle, and the job has been torn down without either
C28_Witness ==
    /\ ivt.pc = "done"
    /\ ivt.completed = 0 /\ ivt.loop = 1 /\ ivt.args.cycles = 2
    /\ ivt.args.v_dwell > 0
    /\ "it_measurement" \notin {Clears(events)[i] : i \in 1..Len(Clears(events))}

\* recs holds each channel of the batch that is in the queue px once, in
\* ascending order, and nothing else
IsRecordsOf(recs, px, batch) ==
    /\ {recs[i] : i \in 1..Len(recs)} = batch \cap px
    /\ \A i, k \in 1..Len(recs) : i < k => recs[i] < recs[k]

\* C29: for every batch the data handler appends one data/raw record for each
\* channel of the batch that is in the pixel queue at that moment, in
\* ascending channel order, and none for another channel; the queue never
\* gets a device back, so a pruned device's channel has no later record.
C29_RecordsOfQueuedChannels ==
    [][/\ dh'.batch # {} /\ dh' # dh
              => IsRecordsOf(dh'.records, pixels, dh'.batch)
       /\ ivt.pc # "idle" => pixels' \subseteq pixels]_vars

\* a batch with both channels was handled in a later phase than the one that
\* pruned channel 1
C29_Witness ==
    /\ ivt.pc = "jsc"
    /\ pixels = {2}
    /\ dh.batch = {1, 2} /\ dh.records = <<2>>
    /\ ivt.pre = 0

\* --------------------------------- the worker's PCB commands in detail
\* the strings queried of the PCB are sequences of characters
Str_s == <<"s">>
Str_stream == <<"s", "t", "r", "e", "a", "m">>

\* str.startswith
startswith(str, prefix) ==
    Len(prefix) <= Len(str) /\ SubSeq(str, 1, Len(prefix)) = prefix

\* the in operator on strings
contains(str, sub) ==
    \E i \in 1..(Len(str) - Len(sub) + 1) : SubSeq(str, i, i + Len(sub) - 1) = sub

\* the substrates' slots of the multiplexer
Slots == {"A", "B"}

\* task['mux_strings'][i] for a device of the slot: the slot and a pad mask
MuxString(slot) == <<"s", slot, "1">>

\* f"s{slot}0", line 253
DeselectSlot(slot) == <<"s", slot, "0">>

\* what for_pcb is asked to pass on: select commands, the bare s, stream
\* commands and others
PcbCmdStrings ==
    {Str_s, MuxString("A"), MuxString("B"), DeselectSlot("A"), Str_stream,
     Str_stream \o <<"0">>, <<"i", "v">>, <<"h">>, <<>>}

RECURSIVE SeqsUpTo(_, _)
SeqsUpTo(S, n) ==
    IF n = 0 THEN {<<>>}
    ELSE LET shorter == SeqsUpTo(S, n - 1)
         IN  shorter \cup {Append(s, x) : s \in {t \in shorter : Len(t) = n - 1}, x \in S}

\* the tasks the worker takes in the detailed model
PcbTask(cmd, pcb_cmd, type, slots) ==
    [cmd |-> cmd, pcb_cmd |-> pcb_cmd, type |-> type, slots |-> slots]

PcbTasks ==
    {PcbTask("for_pcb", c, "", <<>>) : c \in PcbCmdStrings}
    \cup {PcbTask("round_robin", <<>>, t, sl) :
              t \in {"current", "rtd", "connectivity"}, sl \in SeqsUpTo(Slots, MaxSlots)}

\* the multiplexer's selected slots after it is sent q (lines 175, 228, 244,
\* 253 and 262 say what the code takes the commands to do)
MuxAfter(sel, q) ==
    IF q = Str_s THEN {}
    ELSE IF Len(q) = 3 /\ q[1] = "s" /\ q[2] \in Slots
         THEN IF q[3] = "0" THEN sel \ {q[2]} ELSE sel \cup {q[2]}
    ELSE sel

RECURSIVE MuxAfterAll(_, _)
MuxAfterAll(sel, qs) ==
    IF qs = <<>> THEN sel ELSE MuxAfterAll(MuxAfter(sel, Head(qs)), Tail(qs))

\* p.query, for each string of qs in turn
Query(qs) ==
    /\ queries' = queries \o qs
    /\ mux' = MuxAfterAll(mux, qs)

\* worker, line 138: a task is taken
PcbTake(task) ==
    /\ pw.pc = "get"
    /\ pw.taken < MaxTasks
    /\ pw' = [pc |-> task.cmd, task |-> task, i |-> 0, taken |-> pw.taken + 1]
    /\ queries' = <<>>
    /\ UNCHANGED <<mux, mvars, uvars, ivars>>

\* line 174 with the test for one character left out
IsSelectOrBare(pcb_cmd) ==
    startswith(pcb_cmd, Str_s) /\ ~contains(pcb_cmd, Str_stream)

\* line 174
IsSelect(pcb_cmd) ==
    startswith(pcb_cmd, Str_s) /\ ~contains(pcb_cmd, Str_stream) /\ Len(pcb_cmd) # 1

\* for_pcb, lines 172-175
ForPcbDeselect ==
    /\ pw.pc = "for_pcb"
    /\ IF IsSelect(pw.task.pcb_cmd) THEN Query(<<Str_s>>) ELSE UNCHANGED <<mux, queries>>
    /\ pw' = [pw EXCEPT !.pc = "for_pcb_cmd"]
    /\ UNCHANGED <<mvars, uvars, ivars>>

\* for_pcb, lines 176-180
ForPcbQuery ==
    /\ pw.pc = "for_pcb_cmd"
    /\ Query(<<pw.task.pcb_cmd>>)
    /\ pw' = [pw EXCEPT !.pc = "get"]
    /\ UNCHANGED <<mvars, uvars, ivars>>

\* round_robin, lines 224-241: nothing at all without slots
RrOpen ==
    /\ pw.pc = "round_robin"
    /\ IF Len(pw.task.slots) > 0
       THEN /\ Query(<<<<"i", "v">>, Str_s>>)
            /\ pw' = [pw EXCEPT !.pc = "rr_slot", !.i = 1]
       ELSE /\ pw' = [pw EXCEPT !.pc = "get"]
            /\ UNCHANGED <<mux, queries>>
    /\ UNCHANGED <<mvars, uvars, ivars>>

\* lines 241-244: the next slot's device is selected
RrSelect ==
    /\ pw.pc = "rr_slot"
    /\ pw.i <= Len(pw.task.slots)
    /\ Query(<<MuxString(pw.task.slots[pw.i])>>)
    /\ pw' = [pw EXCEPT !.pc = "rr_op"]
    /\ UNCHANGED <<mvars, uvars, ivars>>

\* lines 245-253 without the query of line 253
RrOperateNoDeselect ==
    /\ pw.pc = "rr_op"
    /\ pw' = [pw EXCEPT !.pc = "rr_slot", !.i = @ + 1]
    /\ UNCHANGED <<mux, queries, mvars, uvars, ivars>>

\* lines 245-253: the slot's operation, then the slot is disconnected
RrOperate ==
    /\ pw.pc = "rr_op"
    /\ Query(<<DeselectSlot(pw.task.slots[pw.i])>>)
    /\ pw' = [pw EXCEPT !.pc = "rr_slot", !.i = @ + 1]
    /\ UNCHANGED <<mvars, uvars, ivars>>

\* lines 255-263: after the last slot
RrClose ==
    /\ pw.pc = "rr_slot"
    /\ pw.i > Len(pw.task.slots)
    /\ Query(<<Str_s>>)
    /\ pw' = [pw EXCEPT !.pc = "get"]
    /\ UNCHANGED <<mvars, uvars, ivars>>

\* lines 264-266: the SMU or a query raises while the SMU is set up (lines
\* 229-239), a slot is measured (lines 244-253) or the SMU is reset (255-262)
RrFault ==
    /\ pw.pc \in {"rr_slot", "rr_op"}
    /\ pw' = [pw EXCEPT !.pc = "get"]
    /\ UNCHANGED <<mux, queries, mvars, uvars, ivars>>

PcbNext ==
    \/ \E task \in PcbTasks : PcbTake(task)
    \/ ForPcbDeselect
    \/ ForPcbQuery
    \/ RrOpen
    \/ RrSelect
    \/ RrOperate
    \/ RrClose
    \/ RrFault

PcbSpec == Init /\ [][PcbNext]_vars

\* --------------------------------------- claims about the PCB commands
\* q selects a device of a slot
SelectsSlot(q) == Len(q) = 3 /\ q[1] = "s" /\ q[2] \in Slots /\ q[3] # "0"

\* C24: while round_robin runs at most one slot is selected; a slot is
\* selected only when none is, and the query that follows a slot's select is
\* that slot's deselect.
C24_OneSlotAtATime ==
    pw.task.cmd = "round_robin" /\ pw.pc \in {"rr_slot", "rr_op"}
        => /\ Cardinality(mux) <= 1
           /\ pw.pc = "rr_slot" => mux = {}
           /\ \A i \in 1..Len(queries) :
                  SelectsSlot(queries[i]) /\ i < Len(queries)
                      => queries[i + 1] = DeselectSlot(queries[i][2])

\* the second of two slots is selected, after the first was selected,
\* measured and deselected
C24_Witness ==
    /\ pw.pc = "rr_op" /\ pw.i = 2
    /\ pw.task.type = "rtd"
    /\ pw.task.slots = <<"A", "B">>
    /\ mux = {"B"}

\* the commands the claim calls channel-select commands
IsChannelSelectCmd(c) ==
    /\ Len(c) > 1
    /\ c[1] = "s"
    /\ c \notin {Str_stream, Str_stream \o <<"0">>}

\* C30: for_pcb sends the deselect-all right before the command exactly when
\* the command is a channel-select command, and sends the command once.
C30_DeselectBeforeSelect ==
    pw.task.cmd = "for_pcb" /\ pw.pc = "get"
        => queries = (IF IsChannelSelectCmd(pw.task.pcb_cmd) THEN <<Str_s>> ELSE <<>>)
                     \o <<pw.task.pcb_cmd>>

\* for_pcb, the second task taken, passed on the select of slot B
C30_Witness ==
    /\ pw.task.cmd = "for_pcb" /\ pw.pc = "get"
    /\ pw.task.pcb_cmd = MuxString("B")
    /\ queries = <<Str_s, MuxString("B")>>
    /\ mux = {"B"}
    /\ pw.taken = 2

\* ------------------------------------------------- claims about the sender
\* C25: the sender publishes the messages of outputq in the order they were
\* queued, one at a time: a step that takes from the queue (the sender's
\* publication) takes the oldest waiting message and no other, and every
\* other step leaves the waiting messages in place and at most appends.
C25_PublishedInQueuedOrder ==
    [][IF Len(outputq') < Len(outputq)
       THEN outputq' = Tail(outputq)
       ELSE IsPrefix(outputq, outputq')]_vars

\* the sender has published the manager's log of a command, queued first,
\* and the worker's log of the task and the manager's log of the next command
\* wait in that order
C25_Witness ==
    /\ outputq = <<LogMsg(10, "New task"), LogMsg(10, "New command message!")>>
    /\ wrk.pc # "get"
    /\ commands = 2

\* ------------------------------------------- claims about the health check
\* C31: in a check_health task a probe that fails does not keep the other
\* instruments named in the task from being probed and the task from being
\* marked done: after the controller board's probe failed, the worker goes on
\* to the power supply's and from there to task_done.
C31_ProbesIndependent ==
    (wrk.task.cmd = "check_health" /\ "pcb" \in wrk.failed)
        => wrk.pc \in {"health_psu", "done"}

\* ------------------------------------------ claims about the next run
\* C32: after a job has ended, by whatever path, the next run command that
\* enables an experiment is admitted: a new job process is launched for it,
\* and start_process then publishes the retained Busy status and tracks the
\* new process.
C32_UsableAfterJobEnds ==
    [][/\ \A m \in RunMsgs :
              (Handles(m) /\ IsRun(m) /\ Launched > 0 /\ AliveJobs = {}) =>
                  /\ jobs'[Launched + 1].pc = "start"
                  /\ jobs'[Launched + 1].args = m
                  /\ sup' = [pc |-> "start_publish", ret |-> Launched + 1]
       /\ (sup.pc = "start_publish" /\ sup' # sup) =>
              /\ Len(sent') = 1
              /\ sent'[1].topic = "measurement/status" /\ sent'[1].text = "Busy"
              /\ sent'[1].retain
              /\ retained'.status = "Busy"
              /\ process' = sup.ret]_vars

\* the first job ended on the DAQ timeout, and the next run command launched
\* the second job and published Busy for it
C32_Witness ==
    /\ jobs[1].pc = "dead" /\ jobs[1].daq = "timeout"
    /\ jobs[2].pc # "none"
    /\ process = 2
    /\ Len(sent) = 1 /\ sent[1].text = "Busy"

\* -------------------------------------- claims about the readiness check
\* C33: a job goes on from its readiness check to the run only on an
\* acknowledgement that arrived for it: never on a daq/init message that was
\* already waiting in daq_init_queue when the job was launched (received while
\* no job was running, or left unconsumed by an earlier job).
C33_NoStaleAcknowledgement ==
    \A j \in JobIds :
        jobs[j].pc \in RunPcs \cup {"run_open"} => ~jobs[j].stale

\* C34: when a round_robin task has ended, on whichever path (every slot
\* processed, or an operation on a slot raised), no slot is left selected.
C34_NothingSelectedAfterRoundRobin ==
    (pw.pc = "get" /\ pw.task.cmd = "round_robin") => mux = {}
====
